---- MODULE Spec2Model ----
(***************************************************************************)
(* terminatorul/xref-tag: the TreeWalker of src/TreeWalker.py and the       *)
(* generated_list of src/generated_list.py.                                *)
(*                                                                         *)
(* A walker is bound to a root node, a child-enumeration callback          *)
(* (get_children) and a cycle observer (cycle_func).  Its own state is     *)
(* node_stack (a stack of sibling groups), parent_stack (the owner of each *)
(* group) and history (the nodes returned so far).  The callbacks are      *)
(* observed through logs: every get_children call, every cycle_func call   *)
(* and every value next_child() returns is recorded.                       *)
(*                                                                         *)
(* A generated_list is a list subclass bound to a generator function       *)
(* (gen_fn).  While gen_fn is held the list is deferred and its backing    *)
(* storage is empty; Expand() fills the storage and forgets gen_fn.  The   *)
(* class is written against the Python 2 protocols (__nonzero__,           *)
(* __getslice__, __cmp__, iterator.next()), and its methods are modelled   *)
(* as Python 2 runs them, each method called directly with its arguments.  *)
(* The generator is observed through counters: how often it was invoked    *)
(* and how many values the latest operation drew from it.                  *)
(***************************************************************************)
EXTENDS Integers, Sequences, FiniteSets, TLC

\* ------------------------------------------------------------------ bounds

\* Number of nodes of the enumerated graphs (nodes are 1..NumNodes).
NumNodes == 3
\* Total number of child-list entries (edges, duplicates counted) of a graph.
MaxEdges == 3
\* reset() calls made on one walker.
MaxResets == 1

\* ------------------------------------------------------------------ values

\* Python's None.
None == 0

\* What next_child() returns once the frontier is drained.
NonePair == <<None, None>>

\* Placeholder of the "last returned value" before any call and after a call
\* that raised instead of returning.
NoReturn == <<-1, -1>>

\* The "first exhaustion" record while no pass has completed; once one has, the
\* record holds the number of resets before that pass and the pairs it returned.
NoPass == [at |-> -1, pairs |-> <<>>]

Nodes == 1..NumNodes

\* A graph g is a tuple of child lists, g[n] the list of node n.
NodesOf(g) == 1..Len(g)

\* All child lists of at most k entries, duplicates and self references allowed.
ChildLists(k) == UNION {[1..m -> Nodes] : m \in 0..k}

\* All graphs on the nodes 1..n with at most budget child-list entries in all.
RECURSIVE Graphs(_, _)
Graphs(n, budget) ==
    IF n = 0 THEN {<<>>}
    ELSE UNION {{Append(g, l) : g \in Graphs(n - 1, budget - Len(l))} :
                l \in ChildLists(budget)}

\* The diamond of the documentation, R -> [A, B], A -> [C], B -> [C], with
\* R, A, B, C the nodes 1, 2, 3, 4.
DiamondNodes == [R |-> 1, A |-> 2, B |-> 3, C |-> 4]
R == DiamondNodes.R
A == DiamondNodes.A
B == DiamondNodes.B
C == DiamondNodes.C
Diamond == <<(<<A, B>>), (<<C>>), (<<C>>), (<<>>)>>

\* ------------------------------------------------------------------- state

VARIABLES
    graph,          \* what get_children returns for each node
    root_node,      \* self.root_node (None for a null root)
    node_stack,     \* self.node_stack
    parent_stack,   \* self.parent_stack
    history,        \* self.history
    enumerated,     \* nodes get_children was called for in this pass, in order
    cycles,         \* (node, parent) arguments of the cycle_func calls of this pass
    yielded,        \* non-null (node, parent) pairs next_child returned in this pass
    last,           \* value returned by the latest next_child call
    done_result,    \* value returned by the latest is_done call
    op,             \* the latest operation
    failed,         \* a get_children call raised in this pass
    ctor,           \* <<node_stack, parent_stack, history>> just after construction
    first_pass,     \* the pairs returned by the first pass that ran to completion
    resets          \* number of reset() calls so far

\* The TreeWalker and what is observed of it.
wvars == <<graph, root_node, node_stack, parent_stack, history, enumerated, cycles,
           yielded, last, done_result, op, failed, ctor, first_pass, resets>>

VARIABLES
    produced,       \* the values gen_fn(*gen_args) yields, in order
    gen_fn,         \* self.gen_fn: Producer while deferred, None once expanded
    items,          \* the backing storage (the built-in list part of the object)
    nonzero,        \* self.nonzero: "None", "True" or "False"
    lop,            \* the latest generated_list operation
    result,         \* what the latest operation returned or raised
    invoked,        \* generator invocations made by the latest operation
    consumed,       \* values the latest operation drew from the generator
    invocations,    \* generator invocations since construction
    expansions,     \* generator invocations made by Expand() since construction
    steps           \* operations applied since construction

\* The generated_list and what is observed of it.
lvars == <<produced, gen_fn, items, nonzero, lop, result, invoked, consumed,
           invocations, expansions, steps>>

vars == <<wvars, lvars>>

\* No generated_list is in use.
NoList ==
    /\ produced = <<>>
    /\ gen_fn = None
    /\ items = <<>>
    /\ nonzero = "None"
    /\ lop = "none"
    /\ result = [kind |-> "none", val |-> None]
    /\ invoked = 0
    /\ consumed = 0
    /\ invocations = 0
    /\ expansions = 0
    /\ steps = 0

\* ------------------------------------------------------------ the callbacks

\* The child-enumeration callback: a pure function of the graph.
get_children(g, node) == g[node]

\* --------------------------------------------------------- TreeWalker.reset

\* reset, line 12: the root's children, or [] for a null root.
reset_children(g, root) == IF root # None THEN get_children(g, root) ELSE <<>>

\* reset, line 12: the get_children calls reset makes.
reset_enumerated(root) == IF root # None THEN <<root>> ELSE <<>>

\* Mutant: only the root's first child is put on the frontier.
reset_node_stack_first(children) ==
    IF children # <<>> THEN <<(<<Head(children)>>)>> ELSE <<>>

\* Mutant: the root is put on parent_stack even without children.
reset_parent_stack_always(children, root) == <<root>>

\* reset, lines 14-19: the frontier holds a copy of the root's child list.
reset_node_stack(children) == IF children # <<>> THEN <<children>> ELSE <<>>

reset_parent_stack(children, root) == IF children # <<>> THEN <<root>> ELSE <<>>

\* Mutant: reset() forgets to clear the history.
reset_history_kept(h) == h

\* reset, line 21.
reset_history(h) == <<>>

\* ------------------------------------------------------- TreeWalker.is_done

\* Mutant: is_done() answers like __nonzero__.
is_done_nonzero(ns) == ns # <<>>

is_done(ns) == ns = <<>>

\* ---------------------------------------------------- TreeWalker.next_child

\* Mutant: the parent is read from the bottom of parent_stack.
top_parent_bottom(ps) == ps[1]

\* Lines 45-46: the owner of the top group and the group's first node.
top_parent(ps) == ps[Len(ps)]

\* Mutant: the node is read from the end of the top group.
top_node_last(ns) == ns[Len(ns)][Len(ns[Len(ns)])]

top_node(ns) == Head(ns[Len(ns)])

\* Lines 46-50: pop(0) on the top group; an emptied group leaves both stacks.
pop_node_stack(ns) ==
    LET rest == Tail(ns[Len(ns)])
    IN  IF rest = <<>> THEN SubSeq(ns, 1, Len(ns) - 1)
        ELSE [ns EXCEPT ![Len(ns)] = rest]

\* Mutant: the emptied group's parent stays on parent_stack.
pop_parent_stack_kept(ns, ps) == ps

pop_parent_stack(ns, ps) ==
    IF Tail(ns[Len(ns)]) = <<>> THEN SubSeq(ps, 1, Len(ps) - 1) ELSE ps

\* Mutant: only the latest history entry is consulted.
in_history_latest(node, h) == h # <<>> /\ h[Len(h)] = node

\* Line 52: node in self.history.
in_history(node, h) == \E i \in 1..Len(h) : h[i] = node

\* Mutant: the returned node is not recorded.
append_history_lost(h, node) == h

\* Line 53.
append_history(h, node) == Append(h, node)

\* Mutant: the child list is pushed in reverse order.
push_node_stack_reversed(ns, children) ==
    IF children # <<>>
    THEN Append(ns, [i \in 1..Len(children) |-> children[Len(children) + 1 - i]])
    ELSE ns

\* Mutant: a childless node is pushed on parent_stack all the same.
push_parent_stack_always(ps, children, node) == Append(ps, node)

\* Lines 57-59: a non-empty child list becomes the new top group.
push_node_stack(ns, children) ==
    IF children # <<>> THEN Append(ns, children) ELSE ns

push_parent_stack(ps, children, node) ==
    IF children # <<>> THEN Append(ps, node) ELSE ps

\* Mutant: the group put on node_stack is the very list get_children returned.
children_copied_never == FALSE

\* Lines 15 and 58: the group put on node_stack is children[:], a new list.
children_copied == TRUE

\* Line 46: what get_children returns once pop(0) has run on the top group.
\* The group is a list of its own, so the list get_children returned for the
\* group's owner is left alone; were the group that very list, the owner's
\* child list would lose its first node with it.
popped_children(g, ps) ==
    IF children_copied THEN g
    ELSE [g EXCEPT ![top_parent(ps)] = IF @ # <<>> THEN Tail(@) ELSE @]

\* Lines 44-66.  cyc collects the cycle_func calls of this call; raises says
\* whether the get_children call of line 55 raises.  The result is the state
\* the call leaves behind and what it returned (NoReturn when it raised).
RECURSIVE next_child(_, _, _, _, _, _)
next_child(g, ns, ps, h, cyc, raises) ==
    IF ns # <<>> THEN
        LET parent == top_parent(ps)
            node   == top_node(ns)
            g1     == popped_children(g, ps)
            ns1    == pop_node_stack(ns)
            ps1    == pop_parent_stack(ns, ps)
        IN  IF ~in_history(node, h) THEN
                LET h1 == append_history(h, node)
                IN  IF raises THEN
                        [graph |-> g1,
                         node_stack |-> ns1, parent_stack |-> ps1, history |-> h1,
                         cycles |-> cyc, enumerated |-> <<node>>, ret |-> NoReturn]
                    ELSE
                        LET children == get_children(g1, node)
                        IN  [graph        |-> g1,
                             node_stack   |-> push_node_stack(ns1, children),
                             parent_stack |-> push_parent_stack(ps1, children, node),
                             history      |-> h1,
                             cycles       |-> cyc,
                             enumerated   |-> <<node>>,
                             ret          |-> <<node, parent>>]
            ELSE next_child(g1, ns1, ps1, h, Append(cyc, <<node, parent>>), raises)
    ELSE [graph |-> g, node_stack |-> ns, parent_stack |-> ps, history |-> h,
          cycles |-> cyc, enumerated |-> <<>>, ret |-> NonePair]

\* ----------------------------------------------------------------- actions

\* TreeWalker(node, get_children, cycle_func): the constructor runs reset().
InitWalker(g, root) ==
    LET children == reset_children(g, root)
    IN  /\ graph = g
        /\ root_node = root
        /\ node_stack = reset_node_stack(children)
        /\ parent_stack = reset_parent_stack(children, root)
        /\ history = reset_history(<<>>)
        /\ enumerated = reset_enumerated(root)
        /\ cycles = <<>>
        /\ yielded = <<>>
        /\ last = NoReturn
        /\ done_result = FALSE
        /\ op = "init"
        /\ failed = FALSE
        /\ ctor = <<reset_node_stack(children), reset_parent_stack(children, root),
                    reset_history(<<>>)>>
        /\ first_pass = NoPass
        /\ resets = 0

\* The walker is built on any graph within the bounds, with a null root or with
\* node 1 as the root: the graphs are closed under renaming of the nodes, so
\* every rooted graph occurs up to the names of its nodes.
Init ==
    /\ \/ \E g \in Graphs(NumNodes, MaxEdges), root \in {None, 1} :
               InitWalker(g, root)
       \/ InitWalker(Diamond, R)
    /\ NoList

\* walker.reset()
Reset ==
    /\ resets < MaxResets
    /\ LET children == reset_children(graph, root_node)
       IN  /\ node_stack' = reset_node_stack(children)
           /\ parent_stack' = reset_parent_stack(children, root_node)
    /\ history' = reset_history(history)
    /\ enumerated' = reset_enumerated(root_node)
    /\ cycles' = <<>>
    /\ yielded' = <<>>
    /\ last' = NoReturn
    /\ op' = "reset"
    /\ failed' = FALSE
    /\ resets' = resets + 1
    /\ UNCHANGED <<graph, root_node, done_result, ctor, first_pass>>
    /\ UNCHANGED lvars

\* walker.is_done()
IsDone ==
    /\ done_result' = is_done(node_stack)
    /\ op' = "is_done"
    /\ UNCHANGED <<graph, root_node, node_stack, parent_stack, history, enumerated,
                   cycles, yielded, last, failed, ctor, first_pass, resets>>
    /\ UNCHANGED lvars

\* The walker's state and the callback logs after a next_child call that left r.
Stepped(r) ==
    /\ graph' = r.graph
    /\ node_stack' = r.node_stack
    /\ parent_stack' = r.parent_stack
    /\ history' = r.history
    /\ enumerated' = enumerated \o r.enumerated
    /\ cycles' = cycles \o r.cycles
    /\ last' = r.ret
    /\ UNCHANGED <<root_node, done_result, ctor, resets>>
    /\ UNCHANGED lvars

\* walker.next_child() returning a pair.
NextChild ==
    LET r == next_child(graph, node_stack, parent_stack, history, <<>>, FALSE)
    IN  /\ Stepped(r)
        /\ op' = "next_child"
        /\ yielded' = IF r.ret # NonePair THEN Append(yielded, r.ret) ELSE yielded
        /\ first_pass' = IF r.ret = NonePair /\ ~failed /\ first_pass = NoPass
                         THEN [at |-> resets, pairs |-> yielded] ELSE first_pass
        /\ UNCHANGED failed

\* walker.next_child() with get_children raising at line 55.
NextChildRaises ==
    LET r == next_child(graph, node_stack, parent_stack, history, <<>>, TRUE)
    IN  /\ r.ret = NoReturn
        /\ Stepped(r)
        /\ op' = "next_child_raised"
        /\ failed' = TRUE
        /\ UNCHANGED <<yielded, first_pass>>

Next == Reset \/ IsDone \/ NextChild \/ NextChildRaises

Spec == Init /\ [][Next]_vars

\* The caller keeps calling next_child(): a call that can be made is made, and
\* it either returns or raises.
FairSpec == Spec /\ WF_vars(NextChild \/ NextChildRaises)

\* ------------------------------------------------- vocabulary of the claims

Range(s) == {s[i] : i \in 1..Len(s)}

\* Number of entries of s equal to x.
Count(s, x) == Cardinality({i \in 1..Len(s) : s[i] = x})

\* The nodes the pairs of a log name first.
FirstsOf(s) == [i \in 1..Len(s) |-> s[i][1]]

IsPrefix(s, t) == Len(s) <= Len(t) /\ s = SubSeq(t, 1, Len(s))

\* The nodes some node of S lists as a child.
Succ(g, S) == UNION {Range(g[n]) : n \in S}

RECURSIVE ReachFrom(_, _)
ReachFrom(g, S) ==
    LET T == S \cup Succ(g, S) IN IF T = S THEN S ELSE ReachFrom(g, T)

\* The nodes reachable from root by one or more edges.
Reach(g, root) == IF root = None THEN {} ELSE ReachFrom(g, Succ(g, {root}))

\* Edges into n from the root and from the nodes reachable from the root, a
\* child listed twice counted twice.
RECURSIVE SumCount(_, _, _)
SumCount(g, S, n) ==
    IF S = {} THEN 0
    ELSE LET m == CHOOSE x \in S : TRUE
         IN  Count(g[m], n) + SumCount(g, S \ {m}, n)

Indegree(g, root, n) == SumCount(g, {root} \cup Reach(g, root), n)

\* The reference recursive pre-order depth-first search: acc holds the pairs
\* emitted and the nodes visited so far; list is walked left to right.
RECURSIVE DfsList(_, _, _, _)
DfsList(g, list, parent, acc) ==
    IF list = <<>> THEN acc
    ELSE LET c == Head(list)
         IN  IF c \in acc.visited THEN DfsList(g, Tail(list), parent, acc)
             ELSE DfsList(g, Tail(list), parent,
                          DfsList(g, g[c], c,
                                  [out |-> Append(acc.out, <<c, parent>>),
                                   visited |-> acc.visited \cup {c}]))

RefDfs(g, root) ==
    IF root = None THEN <<>>
    ELSE DfsList(g, g[root], root, [out |-> <<>>, visited |-> {}]).out

\* The pass ran to completion: next_child returned (None, None) and no
\* get_children call raised.
Completed == last = NonePair /\ ~failed

\* ---------------------------------------------------------------- C1

C2_ParentBeforeChild ==
    \A i \in 1..Len(yielded) :
        LET node == yielded[i][1]
            parent == yielded[i][2]
        IN  /\ parent = root_node \/ \E j \in 1..(i - 1) : yielded[j][1] = parent
            /\ parent \in NodesOf(graph)
            /\ node \in Range(get_children(graph, parent))

\* A pair whose parent is not the root was returned.
C2_Witness ==
    \E i \in 1..Len(yielded) :
        /\ yielded[i][2] # root_node
        /\ \E j \in 1..(i - 1) : yielded[j][1] = yielded[i][2]

\* ---------------------------------------------------------------- C3

\* C3 (termination): every next_child call that does not return (None, None)
\* consumes one more reachable node, so at most one call per reachable node
\* returns a node; under a caller that keeps calling, a call returns
\* (None, None) with is_done() true.
C3_Termination ==
    /\ [](Len(history) <= Cardinality(Reach(graph, root_node)))
    /\ [][(op' \in {"next_child", "next_child_raised"} /\ last' # NonePair)
              => Len(history') = Len(history) + 1]_vars
    /\ [][(op' = "next_child" /\ ~failed
              /\ Len(yielded) = Cardinality(Reach(graph, root_node)))
              => last' = NonePair]_vars
    /\ <>(last = NonePair /\ node_stack = <<>>)

\* A pass over a cyclic graph ended: (None, None) came back after two or more
\* nodes and a repeat.
C3_Witness ==
    /\ op = "next_child"
    /\ last = NonePair
    /\ node_stack = <<>>
    /\ \E i \in 1..Len(cycles) : cycles[i][1] = root_node
    /\ Len(history) >= 2

\* ---------------------------------------------------------------- C4

\* The number of cycle_func(n, _) calls of the pass.
CycleCalls(n) == Count(FirstsOf(cycles), n)

\* C4 (on_cycle count), as claimed: after a completed pass the number of
\* cycle_func(n, _) calls equals indegree(n) - 1 for every reachable node n.
C4_CycleCountIsIndegreeMinusOne ==
    (Completed /\ root_node # None) =>
        \A n \in Reach(graph, root_node) :
            CycleCalls(n) = Indegree(graph, root_node, n) - 1

\* ---------------------------------------------------------------- C5

C6_ResetIdempotence ==
    /\ op = "reset" => <<node_stack, parent_stack, history>> = ctor
    /\ (Completed /\ first_pass # NoPass) => yielded = first_pass.pairs

\* A pass was exhausted, reset() was called, and the second pass was exhausted.
C6_Witness ==
    /\ Completed
    /\ first_pass # NoPass
    /\ first_pass.at = 0
    /\ resets = 1
    /\ Len(yielded) >= 2
    /\ cycles # <<>>

\* ---------------------------------------------------------------- C7

\* C7 (child enumeration once per node), as claimed: within one pass
\* get_children is invoked at most once for any node, the root included.
C7_EnumeratedAtMostOnce ==
    \A n \in NodesOf(graph) : Count(enumerated, n) <= 1

\* ---------------------------------------------------------------- C8

DiamondYields == <<(<<A, R>>), (<<C, A>>), (<<B, R>>)>>

\* C8 (diamond): on the diamond the calls return (A, R), (C, A), (B, R) and
\* then (None, None); cycle_func is called once, with (C, B), in the call that
\* returns (None, None).
C8_DiamondScenario ==
    (graph = Diamond /\ root_node = R /\ ~failed) =>
        /\ IsPrefix(yielded, DiamondYields)
        /\ last = NonePair <=> (yielded = DiamondYields /\ cycles # <<>>)
        /\ cycles = <<>> \/ cycles = <<(<<C, B>>)>>
        /\ cycles # <<>> => last = NonePair
        /\ Count(FirstsOf(yielded), C) <= 1

\* The diamond was walked to the end.
C8_Witness ==
    /\ graph = Diamond
    /\ root_node = R
    /\ Completed
    /\ op = "next_child"

\* ---------------------------------------------------------------- C9

\* a lists itself as a child and is the root or a descendant of the root.
SelfLoop(a) ==
    /\ root_node # None
    /\ a \in NodesOf(graph)
    /\ a \in Range(graph[a])
    /\ a = root_node \/ a \in Reach(graph, root_node)

\* The number of cycle_func(a, a) calls of the pass.
SelfCycleCalls(a) == Count(cycles, <<a, a>>)

MaxLen == 4
\* The generated values are 0..MaxVal.
MaxVal == 1
\* Operations applied to one generated_list.
MaxOps == 3

\* ------------------------------------------------------------------ values

\* self.gen_fn while the generator function is held.
Producer == 1

\* An argument left at its default None (min_index, max_index, a slice bound).
Omitted == -99

Vals == 0..MaxVal

\* What a generator can yield.
Producers == UNION {[1..n -> Vals] : n \in 0..MaxLen}

\* Lists handed to an operation as its other operand.
Others == UNION {[1..n -> Vals] : n \in 0..2}

\* What an operation returned: a value of some kind, None, or an exception.
Returns(kind, v) == [kind |-> kind, val |-> v]
ReturnsNone == [kind |-> "none", val |-> None]
Raises(exc) == [kind |-> "error", val |-> exc]

\* Python 2 orders None below every number: a >= None and a > None are true.
PyGE(a, b) == IF b = Omitted THEN TRUE ELSE a >= b
PyGT(a, b) == IF b = Omitted THEN TRUE ELSE a > b

\* What a method leaves behind: the object's fields, how often it invoked the
\* generator (and whether through Expand), how many values it drew, its result.
Outcome(g, its, inv, cons, expd, res) ==
    [gen_fn |-> g, items |-> its, invoked |-> inv, consumed |-> cons,
     expanded |-> expd, result |-> res]

\* ---------------------------------------------------- generated_list.Expand

\* Mutant: the generator function is kept after the expansion.
expand_gen_fn_kept(g) == g

\* Lines 37-38: the generator function is forgotten.
expand_gen_fn(g) == None

\* Lines 35-36: the storage is extended by every generated value, in order.
expand_items(g, its, xs) == IF g # None THEN its \o xs ELSE its

\* Lines 28-38.  An expanded list is left alone.
Expand(g, its, xs) ==
    IF g # None
    THEN Outcome(expand_gen_fn(g), expand_items(g, its, xs), 1, Len(xs), 1, ReturnsNone)
    ELSE Outcome(g, its, 0, 0, 0, ReturnsNone)

\* A method that expands (e the outcome of Expand) and then runs the built-in
\* list method, which leaves the storage its2 and the result res.
Then(e, its2, res) ==
    Outcome(e.gen_fn, its2, e.invoked, e.consumed, e.expanded, res)

\* ------------------------------------------------------ built-in list parts

\* Number of entries of s equal to v.
ListCount(s, v) == Cardinality({i \in 1..Len(s) : s[i] = v})

\* list.index(v): the first position (from 0) of v, or ValueError.
ListIndex(s, v) ==
    IF \E i \in 1..Len(s) : s[i] = v
    THEN Returns("int", (CHOOSE i \in 1..Len(s) :
                            s[i] = v /\ \A j \in 1..(i - 1) : s[j] # v) - 1)
    ELSE Raises("ValueError")

\* Python's floor division and clamping, for the bounds of a slice.
Clamp(x, lo, hi) == IF x < lo THEN lo ELSE IF x > hi THEN hi ELSE x

\* list[i]: a negative position counts from the end.
ListGetItem(s, i) ==
    LET k == IF i < 0 THEN i + Len(s) ELSE i
    IN  IF k >= 0 /\ k < Len(s) THEN Returns("value", s[k + 1]) ELSE Raises("IndexError")

\* list[start:stop:step], any bound Omitted.
ListSlice(s, start, stop, step) ==
    LET n  == Len(s)
        st == IF step = Omitted THEN 1 ELSE step
        norm(x) == IF x < 0 THEN x + n ELSE x
    IN  IF st = 0 THEN Raises("ValueError")
        ELSE IF st > 0 THEN
            LET lo  == IF start = Omitted THEN 0 ELSE Clamp(norm(start), 0, n)
                hi  == IF stop = Omitted THEN n ELSE Clamp(norm(stop), 0, n)
                cnt == IF hi <= lo THEN 0 ELSE ((hi - lo - 1) \div st) + 1
            IN  Returns("list", [k \in 1..cnt |-> s[lo + (k - 1) * st + 1]])
        ELSE
            LET lo  == IF start = Omitted THEN n - 1 ELSE Clamp(norm(start), -1, n - 1)
                hi  == IF stop = Omitted THEN -1 ELSE Clamp(norm(stop), -1, n - 1)
                cnt == IF lo <= hi THEN 0 ELSE ((lo - hi - 1) \div (-st)) + 1
            IN  Returns("list", [k \in 1..cnt |-> s[lo + (k - 1) * st + 1]])

\* list.__getslice__(i, j), called directly: the bounds are clamped.
ListGetSlice(s, i, j) ==
    LET lo == Clamp(i, 0, Len(s))
        hi == Clamp(j, 0, Len(s))
    IN  Returns("list", SubSeq(s, lo + 1, hi))

\* a < b for two lists, as the built-in list compares.
RECURSIVE ListLess(_, _)
ListLess(a, b) ==
    IF b = <<>> THEN FALSE
    ELSE IF a = <<>> THEN TRUE
    ELSE IF Head(a) # Head(b) THEN Head(a) < Head(b)
    ELSE ListLess(Tail(a), Tail(b))

\* s repeated n times.
RECURSIVE ListRepeat(_, _)
ListRepeat(s, n) == IF n <= 0 THEN <<>> ELSE s \o ListRepeat(s, n - 1)

\* list.insert(pos, v).
ListInsert(s, pos, v) ==
    LET k == Clamp(IF pos < 0 THEN pos + Len(s) ELSE pos, 0, Len(s))
    IN  SubSeq(s, 1, k) \o <<v>> \o SubSeq(s, k + 1, Len(s))

\* list.remove(v) on a list that holds v.
ListRemove(s, v) ==
    LET k == CHOOSE i \in 1..Len(s) : s[i] = v /\ \A j \in 1..(i - 1) : s[j] # v
    IN  SubSeq(s, 1, k - 1) \o SubSeq(s, k + 1, Len(s))

ListReverse(s) == [i \in 1..Len(s) |-> s[Len(s) + 1 - i]]

\* list.sort(): v inserted in the sorted list s.
RECURSIVE SortedInsert(_, _)
SortedInsert(s, v) ==
    IF s = <<>> THEN <<v>>
    ELSE IF v < Head(s) THEN <<v>> \o s
    ELSE <<Head(s)>> \o SortedInsert(Tail(s), v)

RECURSIVE ListSort(_)
ListSort(s) == IF s = <<>> THEN <<>> ELSE SortedInsert(ListSort(Tail(s)), Head(s))

\* ------------------------------------------- __len__, count, index, contains

\* Lines 207-216.
gl_len(g, its, xs) ==
    IF g # None THEN Outcome(g, its, 1, Len(xs), 0, Returns("int", Len(xs)))
    ELSE Outcome(g, its, 0, 0, 0, Returns("int", Len(its)))

\* Lines 195-205.
gl_count(g, its, xs, val) ==
    IF g # None THEN Outcome(g, its, 1, Len(xs), 0, Returns("int", ListCount(xs, val)))
    ELSE Outcome(g, its, 0, 0, 0, Returns("int", ListCount(its, val)))

\* Lines 177-191: the loop over the generated values, idx the position of the
\* next value.  ret is what index returns, consumed the values drawn.
RECURSIVE index_loop(_, _, _, _, _)
index_loop(xs, val, min_index, max_index, idx) ==
    IF idx >= Len(xs) THEN [ret |-> -1, consumed |-> Len(xs)]
    ELSE IF idx < min_index THEN index_loop(xs, val, min_index, max_index, idx + 1)
    ELSE IF max_index # Omitted /\ idx > max_index
         THEN [ret |-> -1, consumed |-> idx + 1]
    ELSE IF val = xs[idx + 1] THEN [ret |-> idx, consumed |-> idx + 1]
    ELSE index_loop(xs, val, min_index, max_index, idx + 1)

\* Mutant: the lazy search is taken whatever the bounds.
index_is_lazy_any_bounds(g, min_index, max_index) == g # None

\* Line 173: the lazy search needs a held generator and forward bounds.
index_is_lazy(g, min_index, max_index) ==
    /\ g # None
    /\ min_index = Omitted \/ min_index >= 0
    /\ max_index = Omitted \/ PyGE(max_index, min_index)

\* Lines 172-193.  Outside the lazy search the built-in index runs on the
\* storage as it is, without the bounds.
gl_index(g, its, xs, val, min_index, max_index) ==
    IF index_is_lazy(g, min_index, max_index)
    THEN LET r == index_loop(xs, val, IF min_index = Omitted THEN 0 ELSE min_index,
                             max_index, 0)
         IN  Outcome(g, its, 1, r.consumed, 0, Returns("int", r.ret))
    ELSE Outcome(g, its, 0, 0, 0, ListIndex(its, val))

\* Lines 279-283.  The expanded branch has no return statement.
gl_contains(g, its, xs, val) ==
    IF g # None
    THEN LET r == gl_index(g, its, xs, val, Omitted, Omitted)
         IN  Outcome(r.gen_fn, r.items, r.invoked, r.consumed, r.expanded,
                     Returns("bool", r.result.val >= 0))
    ELSE Outcome(g, its, 0, 0, 0, ReturnsNone)

\* ------------------------------------------------------ __iter__, __nonzero__

\* Mutant: the first iteration expands the list.
gl_iter_memoized(g, its, xs) ==
    LET e == Expand(g, its, xs) IN Then(e, e.items, Returns("iter", e.items))

\* Lines 269-273: a fresh generator, or the storage's iterator.  The result is
\* the values the iterator yields when the caller exhausts it.
gl_iter(g, its, xs) ==
    IF g # None THEN Outcome(g, its, 1, Len(xs), 0, Returns("iter", xs))
    ELSE Outcome(g, its, 0, 0, 0, Returns("iter", its))

\* Mutant: the answer is not cached.
nonzero_after_uncached(g, nz, xs) == nz

\* Lines 157-163: self.nonzero after the call.
nonzero_after(g, nz, xs) ==
    IF g # None /\ nz = "None"
    THEN (IF xs # <<>> THEN "True" ELSE "False")
    ELSE nz

\* Lines 155-170.  The loop of line 158 breaks at the first value.
gl_nonzero(g, its, nz, xs) ==
    IF g # None
    THEN IF nz = "None"
         THEN Outcome(g, its, 1, IF xs # <<>> THEN 1 ELSE 0, 0,
                      Returns("bool", nonzero_after(g, nz, xs) = "True"))
         ELSE Outcome(g, its, 0, 0, 0, Returns("bool", nz = "True"))
    ELSE Outcome(g, its, 0, 0, 0, Returns("bool", Len(its) # 0))

\* ------------------------------------------------ __getitem__, __getslice__

\* A position handed to __getitem__: an integer, or a slice object.
IntPos(i) == [slice |-> FALSE, start |-> i, stop |-> Omitted, step |-> Omitted]
SlicePos(start, stop, step) == [slice |-> TRUE, start |-> start, stop |-> stop, step |-> step]

\* Mutant: an integer position is read lazily too.
getitem_is_lazy_for_int(g, pos) == g # None

\* Lines 219-226: the lazy read needs a held generator and a forward slice.
getitem_is_lazy(g, pos) ==
    /\ g # None
    /\ pos.slice
    /\ pos.start = Omitted \/ pos.start >= 0
    /\ pos.stop = Omitted \/ PyGE(pos.stop, pos.start)

\* Lines 236-241: no step and step 0 count as 1, a negative step as its size.
getitem_step(step) ==
    IF step = Omitted \/ step = 0 THEN 1 ELSE IF step < 0 THEN -step ELSE step

\* Lines 243-254: the loop over the generated values.
RECURSIVE getitem_loop(_, _, _, _, _, _)
getitem_loop(xs, start, stop, step, idx, acc) ==
    IF idx >= Len(xs) THEN [ret |-> acc, consumed |-> Len(xs)]
    ELSE IF idx < start THEN getitem_loop(xs, start, stop, step, idx + 1, acc)
    ELSE IF PyGT(idx, stop) THEN [ret |-> acc, consumed |-> idx + 1]
    ELSE getitem_loop(xs, start, stop, step, idx + 1,
                      IF (idx - start) % step = 0 THEN Append(acc, xs[idx + 1]) ELSE acc)

\* Lines 218-259.
gl_getitem(g, its, xs, pos) ==
    IF getitem_is_lazy(g, pos)
    THEN LET r == getitem_loop(xs, IF pos.start = Omitted THEN 0 ELSE pos.start,
                               pos.stop, getitem_step(pos.step), 0, <<>>)
         IN  Outcome(g, its, 1, r.consumed, 0, Returns("list", r.ret))
    ELSE LET e == Expand(g, its, xs)
         IN  Then(e, e.items,
                  IF pos.slice THEN ListSlice(e.items, pos.start, pos.stop, pos.step)
                  ELSE ListGetItem(e.items, pos.start))

\* Lines 293-302: the loop over the generated values; idx is where it stopped.
RECURSIVE getslice_loop(_, _, _, _, _)
getslice_loop(xs, start_pos, end_pos, idx, acc) ==
    IF idx >= Len(xs) THEN [ret |-> acc, consumed |-> Len(xs), idx |-> idx]
    ELSE IF idx < start_pos THEN getslice_loop(xs, start_pos, end_pos, idx + 1, acc)
    ELSE IF idx > end_pos THEN [ret |-> acc, consumed |-> idx + 1, idx |-> idx]
    ELSE getslice_loop(xs, start_pos, end_pos, idx + 1, Append(acc, xs[idx + 1]))

\* Lines 285-310, with integer bounds (Python 2 hands __getslice__ integers).
gl_getslice(g, its, xs, start_pos, end_pos) ==
    IF g # None /\ start_pos >= 0 /\ end_pos >= 0
    THEN LET r == getslice_loop(xs, start_pos, end_pos, 0, <<>>)
         IN  Outcome(g, its, 1, r.consumed, 0,
                     IF r.idx <= end_pos THEN Raises("IndexError")
                     ELSE Returns("list", r.ret))
    ELSE LET e == Expand(g, its, xs)
         IN  Then(e, e.items, ListGetSlice(e.items, start_pos, end_pos))

\* -------------------------------------------------------------- comparisons

\* The cmp_fn lambdas of lines 71, 86, 104, 113 and 122.
cmp_fn(fn, l, r) ==
    CASE fn = "cmp"    -> (IF l < r THEN -1 ELSE IF l > r THEN 1 ELSE 0)
      [] fn = "lt"     -> l < r
      [] fn = "gt"     -> l > r
      [] fn = "ne"     -> l # r
      [] fn = "not_eq" -> ~(l = r)

\* Line 58: "if result".
cmp_truthy(fn, v) == IF fn = "cmp" THEN v # 0 ELSE v

\* Lines 50-65 against an iterable other yielding ys; i is the position (from
\* 1) of the next generated value.
RECURSIVE sequence_comparation(_, _, _, _)
sequence_comparation(xs, ys, fn, i) ==
    IF i > Len(xs)
    THEN [ret |-> IF i <= Len(ys) THEN cmp_fn(fn, 0, 1) ELSE cmp_fn(fn, 0, 0),
          consumed |-> Len(xs)]
    ELSE IF i > Len(ys) THEN [ret |-> cmp_fn(fn, 1, 0), consumed |-> i]
    ELSE LET res == cmp_fn(fn, xs[i], ys[i])
         IN  IF cmp_truthy(fn, res) THEN [ret |-> res, consumed |-> i]
             ELSE sequence_comparation(xs, ys, fn, i + 1)

\* Lines 86, 95 (through 71), 104, 113, 122, 131 (through 71): the lambda each
\* operator hands to _sequence_comparation on a held generator.
compare_fn(name) ==
    CASE name = "__lt__" -> "lt"
      [] name = "__le__" -> "cmp"
      [] name = "__eq__" -> "not_eq"
      [] name = "__ne__" -> "ne"
      [] name = "__gt__" -> "gt"
      [] name = "__ge__" -> "cmp"

\* Lines 86, 95, 104, 113, 122, 131: what each operator makes of the scan's
\* return value ret.
deferred_compare(name, ret) ==
    CASE name = "__lt__" -> ret
      [] name = "__le__" -> ret <= 0
      [] name = "__eq__" -> ~ret
      [] name = "__ne__" -> ret
      [] name = "__gt__" -> ret
      [] name = "__ge__" -> ret >= 0

\* The built-in list's comparison.
list_compare(name, a, b) ==
    CASE name = "__lt__" -> ListLess(a, b)
      [] name = "__le__" -> ~ListLess(b, a)
      [] name = "__eq__" -> a = b
      [] name = "__ne__" -> a # b
      [] name = "__gt__" -> ListLess(b, a)
      [] name = "__ge__" -> ~ListLess(a, b)

CompareOps == {"__lt__", "__le__", "__eq__", "__ne__", "__gt__", "__ge__"}

\* Lines 84-136: self <op> other, other a list.
gl_compare(g, its, xs, name, other) ==
    IF g # None
    THEN LET r == sequence_comparation(xs, other, compare_fn(name), 1)
         IN  Outcome(g, its, 1, r.consumed, 0,
                     Returns("bool", deferred_compare(name, r.ret)))
    ELSE Outcome(g, its, 0, 0, 0, Returns("bool", list_compare(name, its, other)))

\* ------------------------------------------- operations that expand first

\* Lines 261-263.
gl_setitem(g, its, xs, i, val) ==
    LET e == Expand(g, its, xs)
        k == IF i < 0 THEN i + Len(e.items) ELSE i
    IN  IF k >= 0 /\ k < Len(e.items)
        THEN Then(e, [e.items EXCEPT ![k + 1] = val], ReturnsNone)
        ELSE Then(e, e.items, Raises("IndexError"))

\* Lines 265-267: line 267 names generated_lsit, which is not defined.
gl_delitem(g, its, xs, i) ==
    LET e == Expand(g, its, xs) IN Then(e, e.items, Raises("NameError"))

\* Lines 275-277: list.__reversed__ takes no argument.
gl_reversed(g, its, xs) ==
    LET e == Expand(g, its, xs) IN Then(e, e.items, Raises("TypeError"))

\* Lines 320-322.
gl_add(g, its, xs, other) ==
    LET e == Expand(g, its, xs) IN Then(e, e.items, Returns("list", e.items \o other))

\* Lines 324-326: the built-in list has no __radd__.
gl_radd(g, its, xs, other) ==
    LET e == Expand(g, its, xs) IN Then(e, e.items, Raises("AttributeError"))

\* Lines 328-330.
gl_iadd(g, its, xs, other) ==
    LET e == Expand(g, its, xs) IN Then(e, e.items \o other, Returns("self", None))

\* Lines 332-338: __mul__ and __rmul__.
gl_mul(g, its, xs, n) ==
    LET e == Expand(g, its, xs) IN Then(e, e.items, Returns("list", ListRepeat(e.items, n)))

\* Lines 340-342.
gl_imul(g, its, xs, n) ==
    LET e == Expand(g, its, xs) IN Then(e, ListRepeat(e.items, n), Returns("self", None))

\* Lines 344-346.
gl_append(g, its, xs, val) ==
    LET e == Expand(g, its, xs) IN Then(e, Append(e.items, val), ReturnsNone)

\* Lines 348-350.
gl_extend(g, its, xs, other) ==
    LET e == Expand(g, its, xs) IN Then(e, e.items \o other, ReturnsNone)

\* Lines 352-354.
gl_insert(g, its, xs, pos, val) ==
    LET e == Expand(g, its, xs) IN Then(e, ListInsert(e.items, pos, val), ReturnsNone)

\* Lines 356-362: lines 360 and 362 read generated_list.self, an attribute the
\* class does not have.
gl_pop(g, its, xs, pos) ==
    LET e == Expand(g, its, xs) IN Then(e, e.items, Raises("AttributeError"))

\* Mutant: a failed remove() hands the generator back and empties the storage.
gl_remove_undone(g, its, xs, val) ==
    LET e == Expand(g, its, xs)
    IN  IF \E i \in 1..Len(e.items) : e.items[i] = val
        THEN Then(e, ListRemove(e.items, val), ReturnsNone)
        ELSE Outcome(g, its, e.invoked, e.consumed, e.expanded, Raises("ValueError"))

\* Lines 364-366.
gl_remove(g, its, xs, val) ==
    LET e == Expand(g, its, xs)
    IN  IF \E i \in 1..Len(e.items) : e.items[i] = val
        THEN Then(e, ListRemove(e.items, val), ReturnsNone)
        ELSE Then(e, e.items, Raises("ValueError"))

\* Lines 368-370.
gl_reverse(g, its, xs) ==
    LET e == Expand(g, its, xs) IN Then(e, ListReverse(e.items), ReturnsNone)

\* Lines 372-383, called without arguments.
gl_sort(g, its, xs) ==
    LET e == Expand(g, its, xs) IN Then(e, ListSort(e.items), ReturnsNone)

\* ----------------------------------------------------------------- actions

\* generated_list(gen_fn, *gen_args), lines 22-26.
NewList(xs) ==
    /\ produced = xs
    /\ gen_fn = Producer
    /\ items = <<>>
    /\ nonzero = "None"
    /\ lop = "__init__"
    /\ result = ReturnsNone
    /\ invoked = 0
    /\ consumed = 0
    /\ invocations = 0
    /\ expansions = 0
    /\ steps = 0

\* A generated_list is built on any generator within the bounds.
ListInit ==
    /\ \E xs \in Producers : NewList(xs)
    /\ InitWalker(<<>>, None)

\* Operation name ran and left the outcome o.
Ran(name, o) ==
    /\ steps < MaxOps
    /\ gen_fn' = o.gen_fn
    /\ items' = o.items
    /\ lop' = name
    /\ result' = o.result
    /\ invoked' = o.invoked
    /\ consumed' = o.consumed
    /\ invocations' = invocations + o.invoked
    /\ expansions' = expansions + o.expanded
    /\ steps' = steps + 1
    /\ UNCHANGED produced
    /\ UNCHANGED wvars

DoExpand == Ran("Expand", Expand(gen_fn, items, produced)) /\ UNCHANGED nonzero

DoLen == Ran("__len__", gl_len(gen_fn, items, produced)) /\ UNCHANGED nonzero

DoCount ==
    \E v \in Vals : Ran("count", gl_count(gen_fn, items, produced, v)) /\ UNCHANGED nonzero

\* index(val), index(val, lo) and index(val, lo, hi).
DoIndex ==
    \E v \in Vals, lo \in {Omitted} \cup (-1..1), hi \in {Omitted} \cup (-1..1) :
        /\ lo = Omitted => hi = Omitted
        /\ Ran("index", gl_index(gen_fn, items, produced, v, lo, hi))
        /\ UNCHANGED nonzero

DoContains ==
    \E v \in Vals :
        Ran("__contains__", gl_contains(gen_fn, items, produced, v)) /\ UNCHANGED nonzero

DoIter == Ran("__iter__", gl_iter(gen_fn, items, produced)) /\ UNCHANGED nonzero

DoNonzero ==
    /\ Ran("__nonzero__", gl_nonzero(gen_fn, items, nonzero, produced))
    /\ nonzero' = nonzero_after(gen_fn, nonzero, produced)

\* seq[i] with an integer i.
DoGetItem ==
    \E i \in -1..MaxLen :
        Ran("__getitem__", gl_getitem(gen_fn, items, produced, IntPos(i)))
        /\ UNCHANGED nonzero

\* seq[start:stop:step] through __getitem__.
DoGetItemSlice ==
    \E start \in {Omitted} \cup (-1..1), stop \in {Omitted, -1, 0, 2, MaxLen + 1},
       step \in {Omitted, -1, 0, 2} :
        Ran("__getitem__slice",
            gl_getitem(gen_fn, items, produced, SlicePos(start, stop, step)))
        /\ UNCHANGED nonzero

\* seq.__getslice__(start, end): the plain slice seq[start:end] of Python 2.
DoGetSlice ==
    \E start \in -1..1, end \in {-1, 0, 2, MaxLen, MaxLen + 1} :
        Ran("__getslice__", gl_getslice(gen_fn, items, produced, start, end))
        /\ UNCHANGED nonzero

DoCompare ==
    \E name \in CompareOps, other \in Others :
        Ran(name, gl_compare(gen_fn, items, produced, name, other))
        /\ UNCHANGED nonzero

DoSetItem ==
    \E i \in {-1, 0, MaxLen}, v \in Vals :
        Ran("__setitem__", gl_setitem(gen_fn, items, produced, i, v)) /\ UNCHANGED nonzero

DoDelItem ==
    \E i \in {0, MaxLen} :
        Ran("__delitem__", gl_delitem(gen_fn, items, produced, i)) /\ UNCHANGED nonzero

DoReversed == Ran("__reversed__", gl_reversed(gen_fn, items, produced)) /\ UNCHANGED nonzero

DoAdd ==
    \E other \in Others :
        Ran("__add__", gl_add(gen_fn, items, produced, other)) /\ UNCHANGED nonzero

DoRadd ==
    \E other \in Others :
        Ran("__radd__", gl_radd(gen_fn, items, produced, other)) /\ UNCHANGED nonzero

DoIadd ==
    \E other \in Others :
        Ran("__iadd__", gl_iadd(gen_fn, items, produced, other)) /\ UNCHANGED nonzero

DoMul ==
    \E n \in {0, 2}, name \in {"__mul__", "__rmul__"} :
        Ran(name, gl_mul(gen_fn, items, produced, n)) /\ UNCHANGED nonzero

DoImul ==
    \E n \in {0, 2} :
        Ran("__imul__", gl_imul(gen_fn, items, produced, n)) /\ UNCHANGED nonzero

DoAppend ==
    \E v \in Vals :
        Ran("append", gl_append(gen_fn, items, produced, v)) /\ UNCHANGED nonzero

DoExtend ==
    \E other \in Others :
        Ran("extend", gl_extend(gen_fn, items, produced, other)) /\ UNCHANGED nonzero

DoInsert ==
    \E pos \in {0, 1}, v \in Vals :
        Ran("insert", gl_insert(gen_fn, items, produced, pos, v)) /\ UNCHANGED nonzero

DoPop ==
    \E pos \in {Omitted, 0} :
        Ran("pop", gl_pop(gen_fn, items, produced, pos)) /\ UNCHANGED nonzero

DoRemove ==
    \E v \in Vals :
        Ran("remove", gl_remove(gen_fn, items, produced, v)) /\ UNCHANGED nonzero

DoReverse == Ran("reverse", gl_reverse(gen_fn, items, produced)) /\ UNCHANGED nonzero

DoSort == Ran("sort", gl_sort(gen_fn, items, produced)) /\ UNCHANGED nonzero

ListNext ==
    \/ DoExpand \/ DoLen \/ DoCount \/ DoIndex \/ DoContains \/ DoIter \/ DoNonzero
    \/ DoGetItem \/ DoGetItemSlice \/ DoGetSlice \/ DoCompare
    \/ DoSetItem \/ DoDelItem \/ DoReversed
    \/ DoAdd \/ DoRadd \/ DoIadd \/ DoMul \/ DoImul
    \/ DoAppend \/ DoExtend \/ DoInsert \/ DoPop \/ DoRemove \/ DoReverse \/ DoSort

ListSpec == ListInit /\ [][ListNext]_vars

\* ------------------------------------------------- vocabulary of the claims

Deferred == gen_fn # None
Materialized == gen_fn = None

\* The step ran operation name and left the outcome o.
Applied(name, o) ==
    /\ lop' = name
    /\ gen_fn' = o.gen_fn
    /\ items' = o.items
    /\ result'.kind = o.result.kind
    /\ result'.val = o.result.val
    /\ invoked' = o.invoked
    /\ consumed' = o.consumed

\* ------------------------------------------------------------------- claims

\* C11: one-way materialization.  A generated_list starts deferred; once
\* Expand() has run the generator reference is None in every later state; the
\* generator is invoked for materialization exactly once over the object's
\* life, however many expanding operations follow; an Expand() after the first
\* changes nothing.
C11_OneWayMaterialization ==
    /\ [](lop = "__init__" => Deferred /\ items = <<>>)
    /\ [](expansions = IF Materialized THEN 1 ELSE 0)
    /\ [](lop = "Expand" => Materialized)
    /\ [][Materialized => Materialized' /\ expansions' = expansions]_vars
    /\ [][(Materialized /\ lop' = "Expand")
            => (items' = items /\ invoked' = 0 /\ invocations' = invocations
                /\ nonzero' = nonzero)]_vars

\* Expand() was called again on a materialized list, after other operations.
C11_Witness ==
    /\ lop = "Expand" /\ invoked = 0 /\ steps = MaxOps
    /\ Materialized /\ expansions = 1 /\ items = produced /\ Len(items) = MaxLen

\* C19: iteration is not memoized.  While the list is deferred every iteration
\* invokes the generator afresh (k iterations, k invocations), yields the
\* generated values, and changes nothing of the object; on a materialized list
\* iteration yields the storage and invokes nothing.
C19_IterationNotMemoized ==
    [][lop' = "__iter__" =>
        /\ gen_fn' = gen_fn /\ items' = items /\ nonzero' = nonzero
        /\ expansions' = expansions
        /\ result'.kind = "iter"
        /\ IF Deferred
           THEN invoked' = 1 /\ invocations' = invocations + 1 /\ result'.val = produced
           ELSE invoked' = 0 /\ invocations' = invocations /\ result'.val = items]_vars

\* Every operation so far was an iteration of the deferred list.
C19_Witness ==
    /\ lop = "__iter__" /\ Deferred /\ steps = MaxOps /\ invocations = MaxOps
    /\ result.val = produced /\ produced # <<>> /\ items = <<>>

\* C20: cached truthiness.  On a deferred list the first truthiness check
\* invokes the generator once, consumes at most one value and answers whether
\* a value was generated; a later check on the still deferred list gives the
\* same answer without invoking the generator; the check never materializes.
C20_CachedTruthiness ==
    /\ []((Deferred /\ nonzero # "None") => (nonzero = "True" <=> produced # <<>>))
    /\ [][(Deferred /\ lop' = "__nonzero__") =>
            /\ Deferred' /\ items' = items /\ expansions' = expansions
            /\ result'.kind = "bool"
            /\ result'.val = (produced # <<>>)
            /\ IF nonzero = "None"
               THEN invoked' = 1 /\ consumed' <= 1 /\ nonzero' # "None"
               ELSE invoked' = 0 /\ consumed' = 0 /\ nonzero' = nonzero]_vars

\* A second truthiness check on a deferred list answered from the cache.
C20_Witness ==
    /\ lop = "__nonzero__" /\ Deferred /\ invoked = 0 /\ nonzero = "True"
    /\ result.val = TRUE /\ invocations = 1 /\ steps = 2 /\ Len(produced) = MaxLen

\* Number of generated values read before (and with) the first one equal to v
\* at a position >= from; all of them when there is none.
UpToFirst(xs, v, from) ==
    LET hits == {i \in (from + 1)..Len(xs) : xs[i] = v}
    IN  IF hits = {} THEN Len(xs) ELSE CHOOSE i \in hits : \A j \in hits : i <= j

\* The bounds index() can be given: both left out, or non-negative ones.
IndexBounds ==
    {b \in ({Omitted} \cup (0..MaxLen)) \X ({Omitted} \cup (0..MaxLen)) :
        b[1] = Omitted => b[2] = Omitted}

\* A look-up left the list deferred, its storage empty, after one invocation.
LookedUpLazily == invoked' = 1 /\ Deferred' /\ items' = <<>> /\ expansions' = expansions

IndexScan(xs, v, lo, hi) ==
    LET from == IF lo = Omitted THEN 0 ELSE lo
        hits == {i \in (from + 1)..Len(xs) : xs[i] = v /\ (hi = Omitted \/ i <= hi + 1)}
    IN  IF hits # {} THEN CHOOSE i \in hits : \A j \in hits : i <= j
        ELSE IF hi # Omitted /\ hi + 2 <= Len(xs) THEN hi + 2
        ELSE Len(xs)

C13_IndexReadsPrefix ==
    [][\A i \in 0..(MaxLen - 1) :
        (/\ Deferred /\ Len(produced) = MaxLen
         /\ Applied("__getitem__", gl_getitem(gen_fn, items, produced, IntPos(i))))
            => invoked' = 1 /\ consumed' = i + 1 /\ Deferred' /\ items' = <<>>]_vars

\* C13 as the code has it: reading seq[i] at a position inside the generator
\* output on a deferred list invokes the generator once, reads all its values
\* into the storage, leaves the list materialized and returns the value at
\* position i.
C13_IndexReadExpands ==
    [][\A i \in 0..(MaxLen - 1) :
        (/\ Deferred /\ i < Len(produced)
         /\ Applied("__getitem__", gl_getitem(gen_fn, items, produced, IntPos(i))))
            => /\ invoked' = 1 /\ consumed' = Len(produced)
               /\ Materialized' /\ items' = produced
               /\ result'.kind = "value" /\ result'.val = produced[i + 1]]_vars

\* seq[3] was read on a deferred list of the longest output, whose only 1 is
\* at position 3.
C13_Witness ==
    /\ lop = "__getitem__" /\ steps = 1 /\ Materialized /\ invoked = 1
    /\ Len(produced) = MaxLen /\ consumed = MaxLen /\ items = produced
    /\ \A i \in 1..MaxLen : produced[i] = (IF i = 4 THEN 1 ELSE 0)
    /\ result.kind = "value" /\ result.val = 1

\* Bounds and steps a slice can be given.
SliceBounds == {Omitted} \cup (0..(MaxLen + 1))
SliceSteps == {Omitted, -2, -1, 1, 2}

RaisedIndexError == result'.kind = "error" /\ result'.val = "IndexError"

\* C15: on a deferred list of N generated values every forward slice with a
\* non-negative start and a stop greater than N raises IndexError, be it the
\* plain slice seq[start:stop] (__getslice__) or one with a step
\* (__getitem__ of a slice object).
C15_SliceBeyondEndRaises ==
    [][Deferred =>
        \A start \in 0..MaxLen, stop \in 1..(MaxLen + 1) :
            (start <= stop /\ stop > Len(produced)) =>
                /\ Applied("__getslice__", gl_getslice(gen_fn, items, produced, start, stop))
                      => RaisedIndexError
                /\ \A step \in SliceSteps :
                      Applied("__getitem__slice",
                              gl_getitem(gen_fn, items, produced, SlicePos(start, stop, step)))
                          => RaisedIndexError]_vars

\* The values of xs at positions start, start + st, ... below stop.
Stride(xs, start, stop, st) ==
    LET cnt == IF stop <= start THEN 0 ELSE ((stop - start - 1) \div st) + 1
    IN  [k \in 1..cnt |-> xs[start + (k - 1) * st + 1]]

\* C16: on a deferred list of N generated values a slice with start >= 0, stop
\* left out or start <= stop <= N, and a step s # 0 returns a plain list of the
\* generated values at positions start, start + |s|, ... below stop (below N
\* without stop), invokes the generator once and leaves the list deferred with
\* empty storage.
C16_ForwardSteppedSlice ==
    [][Deferred =>
        \A start \in 0..MaxLen, stop \in SliceBounds, step \in SliceSteps \ {Omitted} :
            (/\ stop = Omitted \/ (start <= stop /\ stop <= Len(produced))
             /\ Applied("__getitem__slice",
                        gl_getitem(gen_fn, items, produced, SlicePos(start, stop, step))))
                => /\ invoked' = 1 /\ Deferred' /\ items' = <<>>
                   /\ result'.kind = "list"
                   /\ result'.val = Stride(produced, start,
                                           IF stop = Omitted THEN Len(produced) ELSE stop,
                                           IF step < 0 THEN -step ELSE step)]_vars

\* C17: on a deferred list generating xs each of <, <=, >, >=, == and !=
\* against an iterable yielding ys returns what the lexicographic comparison
\* of the lists xs and ys returns, and leaves the list deferred.
C17_DeferredCompareLexicographic ==
    [][Deferred =>
        \A name \in CompareOps, other \in Others :
            Applied(name, gl_compare(gen_fn, items, produced, name, other))
                => /\ result'.kind = "bool"
                   /\ result'.val = list_compare(name, produced, other)
                   /\ Deferred' /\ items' = <<>>]_vars

\* C12: iterating the deferred list yields what iterating it yields after
\* append(v) and then pop(), pop() returning v and removing it again.
C12_LazyMaterializedEquivalence ==
    [][(lop = "append" /\ steps = 1 /\ invoked = 1 /\ lop' = "pop") =>
        /\ result'.kind = "value" /\ result'.val = items[Len(items)]
        /\ gl_iter(gen_fn', items', produced).result.val
               = gl_iter(Producer, <<>>, produced).result.val]_vars

\* Operations that expand and then leave the storage as Expand() filled it.
ForcingReads ==
    {"__getitem__", "__delitem__", "__reversed__", "__add__", "__radd__",
     "__mul__", "__rmul__", "pop"}

\* Operations that expand and then change the storage.
ForcingWrites ==
    {"__setitem__", "__iadd__", "__imul__", "append", "extend", "insert",
     "remove", "reverse", "sort"}

\* Expand() ran inside the step: one invocation, every value read, gen_fn None.
Forced ==
    /\ invoked' = 1 /\ consumed' = Len(produced)
    /\ invocations' = invocations + 1 /\ expansions' = 1
    /\ Materialized'

\* The storage after the in-place operation name, had it been applied to the
\* generated values in the order the generator gave them.
WrittenOnProduced(name, its) ==
    CASE name = "__setitem__" ->
            \/ its = produced
            \/ \E k \in 1..Len(produced), v \in Vals : its = [produced EXCEPT ![k] = v]
      [] name = "__iadd__"    -> \E other \in Others : its = produced \o other
      [] name = "__imul__"    -> \E n \in 0..2 : its = ListRepeat(produced, n)
      [] name = "append"      -> \E v \in Vals : its = Append(produced, v)
      [] name = "extend"      -> \E other \in Others : its = produced \o other
      [] name = "insert"      ->
            \E k \in 0..Len(produced), v \in Vals :
                its = SubSeq(produced, 1, k) \o <<v>> \o SubSeq(produced, k + 1, Len(produced))
      [] name = "remove"      ->
            \/ its = produced
            \/ \E k \in 1..Len(produced) :
                its = SubSeq(produced, 1, k - 1) \o SubSeq(produced, k + 1, Len(produced))
      [] name = "reverse"     -> its = ListReverse(produced)
      [] name = "sort"        -> its = ListSort(produced)

\* C18: each expanding operation (index assignment and deletion, integer index
\* read, slicing with a negative bound, reversed(), +, * in both directions
\* and in place, append, extend, insert, pop, remove, reverse, sort) applied
\* to a deferred list invokes the generator exactly once and leaves the list
\* materialized, the storage holding the generated values in the generator's
\* order with the operation's own effect applied on top.
C18_ForcingOperations ==
    [][Deferred =>
        /\ lop' \in ForcingReads => Forced /\ items' = produced
        /\ lop' \in ForcingWrites => Forced /\ WrittenOnProduced(lop', items')
        /\ \A start \in {Omitted} \cup (-2..MaxLen), stop \in {Omitted} \cup (-2..MaxLen),
              step \in SliceSteps :
              (/\ (start # Omitted /\ start < 0) \/ (stop # Omitted /\ stop < 0)
               /\ Applied("__getitem__slice",
                          gl_getitem(gen_fn, items, produced, SlicePos(start, stop, step))))
                  => Forced /\ items' = produced
        /\ \A start \in -2..MaxLen, end \in -2..MaxLen :
              (/\ start < 0 \/ end < 0
               /\ Applied("__getslice__", gl_getslice(gen_fn, items, produced, start, end)))
                  => Forced /\ items' = produced]_vars

\* ------------------------------------------------ TreeWalker: further claims

\* Number of nodes waiting on the frontier.
RECURSIVE FrontierSize(_)
FrontierSize(ns) == IF ns = <<>> THEN 0 ELSE Len(Head(ns)) + FrontierSize(Tail(ns))

NewCycles == SubSeq(cycles', Len(cycles) + 1, Len(cycles'))
NewEnumerated == SubSeq(enumerated', Len(enumerated) + 1, Len(enumerated'))

\* The step is a next_child() call, returning or raising.
NextChildCall == op' \in {"next_child", "next_child_raised"}

\* C21: when next_child() pops a node that is in history it calls
\* cycle_func(node, owner of the group) once, does not call get_children for
\* the node, does not return it, leaves history alone on its account, and goes
\* on with the next frontier entry inside the same call: every entry taken off
\* the frontier by a call is either one cycle_func call for a node in history
\* or the one node the call returns (or fails on).
C21_RepeatHandling ==
    [][(NextChildCall /\ node_stack # <<>>) =>
        LET group  == node_stack[Len(node_stack)]
            node   == Head(group)
            parent == parent_stack[Len(parent_stack)]
            taken  == FrontierSize(node_stack)
                        + (IF last' \notin {NonePair, NoReturn}
                           THEN Len(graph[last'[1]]) ELSE 0)
                        - FrontierSize(node_stack')
        IN  /\ \A i \in 1..Len(NewCycles) : NewCycles[i][1] \in Range(history)
            /\ taken = Len(NewCycles) + Len(NewEnumerated)
            /\ node \in Range(history) =>
                /\ NewCycles # <<>> /\ NewCycles[1] = <<node, parent>>
                /\ node \notin Range(NewEnumerated)
                /\ last'[1] # node
                /\ node \notin Range(SubSeq(history', Len(history) + 1, Len(history')))
                /\ IsPrefix(history, history')
                /\ Len(group) > 1 /\ group[2] \notin Range(history) =>
                      (last'[1] = group[2] \/ last' = NoReturn)
                      /\ history' = Append(history, group[2])
                      /\ Len(NewCycles) = 1]_vars

\* One call reported two repeats and then returned a new node.
C21_Witness ==
    /\ op = "next_child" /\ last \notin {NonePair, NoReturn}
    /\ Len(cycles) = 2 /\ Len(yielded) = 2 /\ resets = 0
    /\ cycles[1][1] = yielded[1][1] /\ cycles[2][1] = yielded[1][1]

\* Nodes whose get_children call raised in this pass: entered in history, never
\* returned.
FailedNodes == Range(history) \ Range(FirstsOf(yielded))

\* get_children calls made for n by next_child() in this pass (reset() makes
\* one for the root).
EnumeratedInPass(n) == Count(enumerated, n) - (IF n = root_node THEN 1 ELSE 0)

IsSuffix(s, t) == Len(s) <= Len(t) /\ s = SubSeq(t, Len(t) - Len(s) + 1, Len(t))

\* C23: after construction, after reset() and after every next_child() call
\* node_stack and parent_stack have the same length, no group on node_stack
\* is empty, and every node of group i is a child of parent_stack[i]: the
\* group is what is left of the child list of its owner.
C23_FrontierInvariant ==
    /\ Len(node_stack) = Len(parent_stack)
    /\ \A i \in 1..Len(node_stack) :
        /\ node_stack[i] # <<>>
        /\ \A j \in 1..Len(node_stack[i]) :
              node_stack[i][j] \in Range(get_children(graph, parent_stack[i]))
        /\ IsSuffix(node_stack[i], get_children(graph, parent_stack[i]))

\* A call returned a node whose children went on top of a group already cut.
C23_Witness ==
    /\ op = "next_child" /\ Len(node_stack) = 2 /\ Len(yielded) = 2
    /\ Len(node_stack[2]) = 2 /\ parent_stack[2] = last[1]

\* s without its entries in S.
RECURSIVE Without(_, _)
Without(s, S) ==
    IF s = <<>> THEN <<>>
    ELSE IF Head(s) \in S THEN Without(Tail(s), S)
    ELSE <<Head(s)>> \o Without(Tail(s), S)

NoRepeats(s) == \A i, j \in 1..Len(s) : s[i] = s[j] => i = j

C25_IsDonePredictsNextChild ==
    [][(op' = "next_child" /\ ~is_done(node_stack)) => last' # NonePair]_vars

\* Sum of the lengths of the child lists of the nodes of s.
RECURSIVE ChildEntries(_, _)
ChildEntries(g, s) ==
    IF s = <<>> THEN 0 ELSE Len(get_children(g, Head(s))) + ChildEntries(g, Tail(s))

\* C26: when a pass has run to completion without failure, the pairs returned
\* and the cycle_func calls together are as many as the entries of the root's
\* child list and of the child lists of the returned nodes.
C26_EdgeAccounting ==
    Completed =>
        Len(yielded) + Len(cycles)
            = (IF root_node # None THEN Len(get_children(graph, root_node)) ELSE 0)
              + ChildEntries(graph, FirstsOf(yielded))

\* A completed pass with returned nodes and a cycle_func call, on a graph in
\* which the root lies on a cycle.
C26_Witness ==
    /\ Completed /\ Len(yielded) = 2 /\ cycles # <<>>
    /\ root_node \in Range(FirstsOf(yielded))

\* ------------------------------------------- generated_list: further claims

\* What the operator `in` makes of the value __contains__ returned.
Truth(res) == res.kind = "bool" /\ res.val

\* C28: `v in seq` gives the same answer on the deferred list and after
\* Expand(): true exactly when v is one of the generated values.
C28_MembershipStable ==
    [][\A v \in Vals :
        (/\ Deferred \/ items = produced
         /\ Applied("__contains__", gl_contains(gen_fn, items, produced, v)))
            => (Truth(result') <=> v \in Range(produced))]_vars

\* C29: on a deferred list of N generated values the plain slice
\* seq[start:stop] with 0 <= start <= stop <= N raises nothing and returns the
\* generated values at positions start .. stop - 1; seq[0:N] returns them all.
C29_PlainSliceWithinBounds ==
    [][Deferred =>
        \A start \in 0..MaxLen, stop \in 0..MaxLen :
            (/\ start <= stop /\ stop <= Len(produced)
             /\ Applied("__getslice__", gl_getslice(gen_fn, items, produced, start, stop)))
                => /\ result'.kind = "list"
                   /\ result'.val = SubSeq(produced, start + 1, stop)]_vars

\* Operations that expand first and can end in an error.
FailingOps ==
    {"__getitem__", "__setitem__", "__delitem__", "__reversed__", "__radd__",
     "pop", "remove"}

\* C30: when an expanding operation on a deferred list ends in an error (an
\* integer index beyond the generated values, remove() of a value not there,
\* pop(), index deletion) the list is left materialized all the same: gen_fn
\* is None and the storage holds the generated values in order.
C30_NoRollbackOnError ==
    [][(Deferred /\ lop' \in FailingOps /\ result'.kind = "error") =>
        /\ Materialized' /\ items' = produced
        /\ invoked' = 1 /\ consumed' = Len(produced) /\ expansions' = 1]_vars

\* remove() of a value the generator never gave raised ValueError on a
\* deferred list of the longest output, which is now in the storage.
C30_Witness ==
    /\ lop = "remove" /\ steps = 1 /\ result.kind = "error" /\ result.val = "ValueError"
    /\ Materialized /\ items = produced /\ Len(produced) = MaxLen /\ invoked = 1

====
